---- MODULE Spec2Model ----
(***************************************************************************)
(* Model of scripts/classify-keywords.py: the keyword intent               *)
(* classification pipeline (heuristic filter, batched oracle classifier,   *)
(* persona clustering, journey report), and of update_search_volume_json   *)
(* of scripts/collect-search-volume.py.                                    *)
(*                                                                         *)
(* Text is modelled as a sequence of characters, each character a TLA+     *)
(* string.  A Hangul syllable is one caseless character, written here by   *)
(* its romanisation ("ga" "gu" = the two syllables of the word for         *)
(* furniture); Latin letters are single characters with an upper and a     *)
(* lower case form.                                                         *)
(***************************************************************************)
EXTENDS Integers, Sequences, FiniteSets, TLC

(***************************************************************************)
(* Bounds of the model.                                                    *)
(***************************************************************************)
\* Fragments concatenated into one keyword text of the filter specification.
MaxParts == 2
\* Records in the input pool of the pipeline specification.
MaxPool == 3
\* Entries of "historical" in the search-volume.json found by the first update.
MaxHist == 2
\* Calls of update_search_volume_json in a row.
MaxUpdates == 2
\* Stand-in for batch_size = 150 (classify_intent): the slice length of a batch.
BatchSize == 2

(***************************************************************************)
(* str.lower, str.replace(" ", ""), and the substring test `a in b`.       *)
(***************************************************************************)
LowerChar(c) ==
    CASE c = "A" -> "a"
      [] c = "S" -> "s"
      [] c = "T" -> "t"
      [] c = "V" -> "v"
      [] OTHER -> c

lower(s) == [i \in 1..Len(s) |-> LowerChar(s[i])]

IsSpace(c) == c = " "

RemoveSpaces(s) == SelectSeq(s, LAMBDA c : ~IsSpace(c))

\* Python's `sub in s` on strings.
Contains(sub, s) ==
    \E i \in 0..(Len(s) - Len(sub)) : SubSeq(s, i + 1, i + Len(sub)) = sub

(***************************************************************************)
(* Configuration (config.json) and the term lists.                         *)
(* The brand names are input data; the model's configuration has one       *)
(* Hangul competitor name and one Latin two-word name, "St Va", so that    *)
(* letter case and internal whitespace are exercised.                      *)
(***************************************************************************)
BRAND == <<"il", "rum">>

COMPETITORS == << <<"han", "saem">>, <<"S", "t", " ", "V", "a">> >>

ALL_BRANDS == <<BRAND>> \o COMPETITORS

\* The terms of FURNITURE_TERMS that carry Latin letters, all four of them,
\* and two of the Hangul-only terms (which lower() leaves unchanged).
FURNITURE_TERMS ==
    << <<"ga", "gu">>,
       <<"T", "V", "jang">>, <<"t", "v", "jang">>,
       <<"A", "S">>, <<"a", "/", "s">>,
       <<"hu", "gi">> >>

\* Two of the Hangul-only terms of EXCLUDE_TERMS.
EXCLUDE_TERMS == << <<"yeo", "haeng">>, <<"byeok", "ji">> >>

(***************************************************************************)
(* Filtering.                                                              *)
(***************************************************************************)
\* The brand test without the whitespace-free alternative.
MatchesBrandSpacedOnly(kw, brand) == Contains(lower(brand), kw)

MatchesBrand(kw, brand) ==
    Contains(lower(brand), kw) \/ Contains(RemoveSpaces(lower(brand)), kw)

MatchesTerm(kw, term) == Contains(term, kw)

is_furniture_related(keyword) ==
    LET kw == lower(keyword) IN
    IF \E b \in 1..Len(ALL_BRANDS) : MatchesBrand(kw, ALL_BRANDS[b]) THEN TRUE
    ELSE IF \E t \in 1..Len(FURNITURE_TERMS) : MatchesTerm(kw, FURNITURE_TERMS[t]) THEN TRUE
    ELSE IF \E t \in 1..Len(EXCLUDE_TERMS) : Contains(EXCLUDE_TERMS[t], kw) THEN FALSE
    ELSE FALSE

\* The volume test with the floor itself dropped.
BelowFloorInclusive(kw, min_volume) == kw.total <= min_volume

BelowFloor(kw, min_volume) == kw.total < min_volume

filter_keywords(keywords, min_volume) ==
    [relevant |->
        SelectSeq(keywords, LAMBDA kw :
            ~BelowFloor(kw, min_volume) /\ is_furniture_related(kw.keyword)),
     filtered_out |->
        SelectSeq(keywords, LAMBDA kw :
            ~BelowFloor(kw, min_volume) /\ ~is_furniture_related(kw.keyword))]

(***************************************************************************)
(* Input pools.  related-keywords.json is written by the collector with    *)
(* one record per distinct keyword text, sorted by descending total.       *)
(***************************************************************************)
KeywordRecord(text, total) == [keyword |-> text, total |-> total]

IsPool(p) ==
    /\ \A a, b \in 1..Len(p) : a < b => p[a].total >= p[b].total
    /\ \A a, b \in 1..Len(p) : a # b => p[a].keyword # p[b].keyword

SeqsUpTo(S, n) == UNION {[1..k -> S] : k \in 0..n}

\* Texts of the pipeline specification: a competitor with a domain term, a
\* text naming both competitors, a bare domain term, an excluded text.
PoolTexts ==
    { <<"S", "t", " ", "V", "a", " ", "hu", "gi">>,
      <<"han", "saem", " ", "S", "t", " ", "V", "a">>,
      <<"ga", "gu">>,
      <<"yeo", "haeng">> }

PoolVolumes == {200, 50, 49}

Pools ==
    {p \in SeqsUpTo({KeywordRecord(t, v) : t \in PoolTexts, v \in PoolVolumes}, MaxPool) :
        IsPool(p)}

\* Texts of the filter specification: up to MaxParts fragments in a row.
Fragments ==
    { <<"il", "rum">>, <<"han", "saem">>,
      <<"S", "t", " ", "V", "a">>, <<"s", "t", " ", "v", "a">>,
      <<"S", "T", " ", "V", "A">>, <<"S", "t", "V", "a">>, <<"s", "t", "v", "a">>,
      <<"ga", "gu">>,
      <<"A", "S">>, <<"a", "s">>, <<"a", "/", "s">>, <<"A", "/", "S">>,
      <<"T", "V", "jang">>, <<"t", "v", "jang">>, <<"T", "v", "jang">>,
      <<"yeo", "haeng">>,
      <<" ">>, <<"do">> }

RECURSIVE Concat(_)
Concat(parts) == IF parts = <<>> THEN <<>> ELSE Head(parts) \o Concat(Tail(parts))

FilterTexts == {Concat(parts) : parts \in SeqsUpTo(Fragments, MaxParts)}

FilterPools ==
    {<<KeywordRecord(t, v)>> : t \in FilterTexts \ {<<>>}, v \in {50, 49}}

(***************************************************************************)
(* State of one run of main().                                             *)
(***************************************************************************)
VARIABLES
    pc,              \* position in main()
    dry_run,         \* "--dry-run" in sys.argv (line 442)
    api_key,         \* GEMINI_API_KEY is set (line 52)
    input_exists,    \* data/related-keywords.json exists (line 461)
    input_keywords,  \* its "keywords" list (line 464)
    top_n,           \* line 443, or the value after --top (line 447)
    all_keywords,    \* line 464
    relevant,        \* line 468
    filtered_out,    \* line 468
    relevant_top,    \* line 475
    client,          \* create_client() has run (line 489)
    batch_start,     \* i of classify_intent's loop (line 195)
    attempt,         \* attempt of call_gemini's loop (line 156)
    all_results,     \* line 191
    classified,      \* line 493
    answered,        \* some classification call has returned a value (line 166)
    genuine,         \* some batch's records are the oracle's (line 226)
    calls,           \* generate_content calls of the classify_intent under way
    last_failure,    \* how the latest attempt of call_gemini failed, and the
                     \* time.sleep that followed it (lines 167-181)
    pauses,          \* time.sleep(0.5) calls of classify_intent (line 237)
    cluster_result,  \* lines 506-514
    no_clusters,     \* the clustering call gave no cluster ("pending" before it)
    journey_file,    \* data/consumer-journey.json (lines 386-388)
    clusters_file,   \* data/keyword-clusters.json (lines 431-433)
    exit_code,       \* the process's exit code, Running until it ends
    search_volume_file,  \* data/search-volume.json (collect-search-volume.py)
    existing,        \* the file as update_search_volume_json found it (279-282)
    current_month,   \* datetime.now() as "%Y-%m" at the latest update (276)
    brands_data,     \* the argument of the latest update
    updates          \* calls of update_search_volume_json so far

inputs == <<dry_run, api_key, input_exists, input_keywords, top_n>>
filt == <<all_keywords, relevant, filtered_out, relevant_top>>
cls == <<client, batch_start, attempt, all_results, classified, answered,
         genuine, calls, last_failure, pauses>>
outs == <<cluster_result, no_clusters, journey_file, clusters_file>>
vol == <<search_volume_file, existing, current_month, brands_data, updates>>
vars == <<pc, inputs, filt, cls, outs, exit_code, vol>>

DefaultTopN == 500
\* top_n without --top, and with --top cutting one record off the largest pool.
TopArgs == {DefaultTopN, MaxPool - 1}
MinVolume == 50
Running == 0 - 1

NoValue == [t |-> "null", truthy |-> FALSE, key |-> "none", vt |-> "none",
            items |-> <<>>, clusters |-> <<>>]

NoFile == [written |-> FALSE]

NoFailure == [kind |-> "none", slept |-> 0]

(***************************************************************************)
(* search-volume.json and the arguments of update_search_volume_json.      *)
(* A month "%Y-%m" is modelled by its number counted from a first month:   *)
(* strings of this one width are ordered as these numbers are.             *)
(*   demographics  "absent": the file has no such key, "empty": {},        *)
(*                 "datalab": a filled block, "placeholder": the block of  *)
(*                 lines 315-320                                           *)
(***************************************************************************)
Months == 1..(MaxHist + 1)

BrandVolume(pc_volume, mobile) ==
    [pc |-> pc_volume, mobile |-> mobile, total |-> pc_volume + mobile]

BrandsData == {[name \in {BRAND} |-> BrandVolume(p, 10)] : p \in {0, 10}}

HistoryEntry(date, brands) == [date |-> date, brands |-> brands]

\* {name: {"total": d["total"]} for name, d in brands_data.items()}
TotalsOf(brands) == [name \in DOMAIN brands |-> [total |-> brands[name].total]]

VolumeFile(exists, current, historical, demographics) ==
    [exists |-> exists, current |-> current, historical |-> historical,
     demographics |-> demographics]

NoCurrent == [date |-> 0, brands |-> [name \in {BRAND} |-> BrandVolume(0, 0)]]

NoVolumeFile == VolumeFile(FALSE, NoCurrent, <<>>, "absent")

\* Entries a file may hold before the first update: any months in any order.
FoundEntries ==
    {HistoryEntry(m, [name \in {BRAND} |-> [total |-> 30]]) : m \in Months}

FoundFiles ==
    {NoVolumeFile} \cup
    {VolumeFile(TRUE, NoCurrent, h, d) :
        h \in SeqsUpTo(FoundEntries, MaxHist), d \in {"absent", "empty", "datalab"}}

VolumeIdle ==
    /\ search_volume_file = NoVolumeFile /\ existing = NoVolumeFile
    /\ current_month = 0
    /\ brands_data = NoCurrent.brands
    /\ updates = 0

InitRun ==
    /\ pc = "start"
    /\ all_keywords = <<>> /\ relevant = <<>> /\ filtered_out = <<>>
    /\ relevant_top = <<>>
    /\ client = FALSE /\ batch_start = 0 /\ attempt = 0
    /\ all_results = <<>> /\ classified = <<>> /\ answered = FALSE
    /\ genuine = FALSE /\ calls = 0
    /\ last_failure = NoFailure /\ pauses = 0
    /\ cluster_result = NoValue /\ no_clusters = "pending"
    /\ journey_file = NoFile /\ clusters_file = NoFile
    /\ exit_code = Running

Init ==
    /\ dry_run \in BOOLEAN
    /\ api_key \in BOOLEAN
    /\ input_exists \in BOOLEAN
    /\ input_keywords \in (IF input_exists THEN Pools ELSE {<<>>})
    /\ top_n \in TopArgs
    /\ InitRun
    /\ VolumeIdle

InitFilter ==
    /\ dry_run = TRUE
    /\ api_key \in BOOLEAN
    /\ input_exists = TRUE
    /\ input_keywords \in FilterPools
    /\ top_n = DefaultTopN
    /\ InitRun
    /\ VolumeIdle

(***************************************************************************)
(* main(): argument parsing, credential check, load, filter.               *)
(***************************************************************************)
Take(s, n) == SubSeq(s, 1, IF n < Len(s) THEN n ELSE Len(s))

\* lines 442-457: a non-dry run without the credential exits with code 1.
MainStart ==
    /\ pc = "start"
    /\ IF ~dry_run /\ ~api_key
       THEN pc' = "exited" /\ exit_code' = 1
       ELSE pc' = "load" /\ UNCHANGED exit_code
    /\ UNCHANGED <<vol, inputs, filt, cls, outs>>

\* lines 459-465: open() raises when the file is missing; nothing catches it.
MainLoad ==
    /\ pc = "load"
    /\ IF ~input_exists
       THEN pc' = "exited" /\ exit_code' = 1 /\ UNCHANGED all_keywords
       ELSE pc' = "filter" /\ all_keywords' = input_keywords /\ UNCHANGED exit_code
    /\ UNCHANGED <<vol, inputs, relevant, filtered_out, relevant_top, cls, outs>>

\* Lines 467-475 without the dry-run return of lines 481-486.
MainFilterNoReturn ==
    /\ pc = "filter"
    /\ LET f == filter_keywords(all_keywords, MinVolume) IN
        /\ relevant' = f.relevant
        /\ filtered_out' = f.filtered_out
        /\ relevant_top' = Take(f.relevant, top_n)
    /\ pc' = "client"
    /\ UNCHANGED <<vol, inputs, all_keywords, cls, outs, exit_code>>

\* lines 467-486: filter, take the top N, return here in a dry run.
MainFilter ==
    /\ pc = "filter"
    /\ LET f == filter_keywords(all_keywords, MinVolume) IN
        /\ relevant' = f.relevant
        /\ filtered_out' = f.filtered_out
        /\ relevant_top' = Take(f.relevant, top_n)
    /\ IF dry_run
       THEN pc' = "exited" /\ exit_code' = 0
       ELSE pc' = "client" /\ UNCHANGED exit_code
    /\ UNCHANGED <<vol, inputs, all_keywords, cls, outs>>

(***************************************************************************)
(* JSON values as the code tells them apart.                               *)
(*   t       the Python type json.loads returns                            *)
(*   truthy  bool(value)                                                   *)
(*   key     the one name for which `name in value` is true ("none": no    *)
(*           such name): a key of a dict, an element of a list, a          *)
(*           substring of a str                                            *)
(*   vt      the type of value[key] of a dict: "list" or "scalar"          *)
(*   items   value["results"] when it is a list                            *)
(*   clusters value["clusters"] when it is a list                          *)
(* An element of "results" is a record (isdict) with an optional stage     *)
(* (ABSENT: no such key) and an optional volume (vtag "missing"), whose    *)
(* volume may be a number (vtag "int") or some text (vtag "str"); or it is *)
(* not a record at all (isdict = FALSE).                                   *)
(***************************************************************************)
ABSENT == "<absent>"

Item(isdict, keyword, vtag, volume, stage) ==
    [isdict |-> isdict, keyword |-> keyword, vtag |-> vtag, volume |-> volume,
     stage |-> stage]

ClassifiedRecord(keyword, volume, stage) == Item(TRUE, keyword, "int", volume, stage)

JValue(t, truthy, key, vt, items, clusters) ==
    [t |-> t, truthy |-> truthy, key |-> key, vt |-> vt, items |-> items,
     clusters |-> clusters]

JNum == JValue("num", TRUE, "none", "none", <<>>, <<>>)
JStr(key) == JValue("str", TRUE, key, "none", <<>>, <<>>)
JList(key) == JValue("list", TRUE, key, "none", <<>>, <<>>)
JEmptyDict == JValue("dict", FALSE, "none", "none", <<>>, <<>>)
JResults(items) == JValue("dict", TRUE, "results", "list", items, <<>>)
JClusters(clusters) == JValue("dict", TRUE, "clusters", "list", <<>>, clusters)
JScalarUnder(key) == JValue("dict", TRUE, key, "scalar", <<>>, <<>>)
\* A JSON array of records.
JRecords(items) == JValue("list", TRUE, "none", "none", items, <<>>)

STAGES == <<"awareness", "consideration", "conversion">>

StageSet == {STAGES[n] : n \in 1..Len(STAGES)}

\* Labels an oracle may put in "stage": the three stages and one other word.
OracleLabels == StageSet \cup {"neutral"}

(***************************************************************************)
(* What the oracle may answer to the classification request of a batch.    *)
(***************************************************************************)
Echo(batch, label) ==
    [j \in 1..Len(batch) |->
        ClassifiedRecord(batch[j].keyword, batch[j].total, label[j])]

AllAwareness(batch) == [j \in 1..Len(batch) |-> "awareness"]

AllConsideration(batch) == [j \in 1..Len(batch) |-> "consideration"]

ReplaceFirst(s, x) == IF s = <<>> THEN <<>> ELSE <<x>> \o Tail(s)

Reverse(s) == [j \in 1..Len(s) |-> s[Len(s) + 1 - j]]

\* Answers that are not one record per keyword in order, or whose records
\* lack or mangle a field.
DefectiveResults(batch) ==
    LET e == Echo(batch, AllAwareness(batch)) IN
    IF batch = <<>> THEN {}
    ELSE { SubSeq(e, 1, Len(e) - 1),
           Append(e, e[1]),
           Reverse(e),
           ReplaceFirst(e, ClassifiedRecord(<<"do">>, e[1].volume, "awareness")),
           ReplaceFirst(e, Item(FALSE, e[1].keyword, "missing", 0, ABSENT)),
           ReplaceFirst(e, Item(TRUE, e[1].keyword, "str", 0, "awareness")),
           ReplaceFirst(e, Item(TRUE, e[1].keyword, "missing", 0, "awareness")),
           ReplaceFirst(e, Item(TRUE, e[1].keyword, "int", e[1].volume, ABSENT)) }

ResultLists(batch) ==
    {Echo(batch, label) : label \in [1..Len(batch) -> OracleLabels]}
        \cup DefectiveResults(batch)

\* An answer that is a JSON array of one record per keyword.
ClassifyArrays(batch) == {JRecords(Echo(batch, AllConsideration(batch)))}

ClassifyValues(batch) ==
    {JResults(r) : r \in ResultLists(batch)}
        \cup {NoValue, JNum, JStr("results"), JList("results"), JList("none"),
              JEmptyDict, JScalarUnder("results"), JClusters(<<>>)}
        \cup ClassifyArrays(batch)

\* The values the oracle may also send inside other text.
ClassifyWrapped(batch) ==
    {JResults(Echo(batch, AllConsideration(batch))), JEmptyDict, JNum}
        \cup ClassifyArrays(batch)

Response(kind, val) == [kind |-> kind, val |-> val]

\* kind "raise": generate_content or response.text raises; "garbage": the
\* text holds no JSON; "json": the text is the JSON of val; "wrapped": the
\* text is the JSON of val with other text before and after it.
Responses(values) ==
    {Response("raise", NoValue), Response("garbage", NoValue)}
        \cup {Response("json", v) : v \in values}

Wrapped(values) == {Response("wrapped", v) : v \in values}

(***************************************************************************)
(* call_gemini: one pass of its retry loop.                                *)
(***************************************************************************)
MaxRetries == 3

\* A record of an array, as the dict json.loads makes of it.
RecordDict == JScalarUnder("keyword")

\* Lines 169-176 on the JSON of val inside other text: the substring from
\* the first "{" to the last "}" is val itself when val is a dict; of an
\* array it is the run of its records without the brackets, which parses
\* when there is one record; other values hold no brace.
Recoverable(val) ==
    \/ val.t = "dict"
    \/ val.t = "list" /\ Len(val.items) = 1 /\ val.items[1].isdict

Recovered(val) == IF val.t = "dict" THEN val ELSE RecordDict

\* Only the strict json.loads of line 166 makes the attempt return.
ReturnsStrictOnly(resp) == resp.kind = "json"

\* The response makes this attempt return a value (lines 166 and 174).
Returns(resp) ==
    \/ resp.kind = "json"
    \/ resp.kind = "wrapped" /\ Recoverable(resp.val)

\* A loop of max_retries + 1 passes.
LastAttemptLate(n) == n >= MaxRetries

\* The loop is over after this attempt: a value is returned, or it was the
\* last attempt and None is returned (line 183).
LastAttempt(n) == n >= MaxRetries - 1

ReturnedValue(resp) ==
    IF resp.kind = "json" THEN resp.val
    ELSE IF Returns(resp) THEN Recovered(resp.val)
    ELSE NoValue

\* The sleep without the test of line 180.
BackoffAlways(kind, n) == IF kind = "raise" THEN 2 ^ n ELSE 0

\* time.sleep(2 ** attempt) of lines 180-181, 0 when there is no sleep.
Backoff(kind, n) == IF kind = "raise" /\ n < MaxRetries - 1 THEN 2 ^ n ELSE 0

\* What an attempt leaves of its failure: "raise" for the handler of line
\* 178, "garbage" for the parse failure of line 177.
Failure(resp, n) ==
    IF Returns(resp) THEN NoFailure
    ELSE IF resp.kind = "raise"
         THEN [kind |-> "raise", slept |-> Backoff("raise", n)]
         ELSE [kind |-> "garbage", slept |-> Backoff("garbage", n)]

(***************************************************************************)
(* classify_intent: lines 224-235 for one batch.                           *)
(***************************************************************************)
\* Every batch is cut from the head of the list.
BatchFromHead(keywords, start) == Take(keywords, BatchSize)

Batch(keywords, start) ==
    SubSeq(keywords, start + 1,
           IF start + BatchSize < Len(keywords) THEN start + BatchSize ELSE Len(keywords))

\* `result and "results" in result` raises for a number.
MembershipRaises(result) == result.truthy /\ result.t = "num"

HasKey(result, name) == result.truthy /\ result.key = name

\* result["results"] raises for a str or a list; extend() raises when the
\* value is not iterable.
ExtendRaises(result) ==
    HasKey(result, "results") /\ (result.t # "dict" \/ result.vt # "list")

\* The fallback with the label main() uses for a record without a stage.
FallbackUnknown(batch) ==
    [j \in 1..Len(batch) |->
        ClassifiedRecord(batch[j].keyword, batch[j].total, "unknown")]

Fallback(batch) ==
    [j \in 1..Len(batch) |->
        ClassifiedRecord(batch[j].keyword, batch[j].total, "awareness")]

BatchResults(result, batch) ==
    IF HasKey(result, "results") THEN result.items ELSE Fallback(batch)

ClassifyRaises(result) == MembershipRaises(result) \/ ExtendRaises(result)

(***************************************************************************)
(* What the oracle may answer to the clustering request.                   *)
(***************************************************************************)
ClusterTop == 300

Cluster(isdict, keywords) == [isdict |-> isdict, keywords |-> keywords]

ClusterKeywords(kws) ==
    [j \in 1..Len(kws) |-> Item(TRUE, kws[j].keyword, "int", kws[j].total, ABSENT)]

ClusterLists(top_kws) ==
    LET e == ClusterKeywords(top_kws) IN
    { <<>>,
      <<Cluster(TRUE, e)>>,
      <<Cluster(TRUE, Take(e, 1)), Cluster(TRUE, SubSeq(e, 2, Len(e)))>>,
      <<Cluster(FALSE, <<>>)>>,
      <<Cluster(TRUE, <<Item(TRUE, <<"do">>, "int", 200, ABSENT)>>)>>,
      <<Cluster(TRUE, <<Item(TRUE, <<"do">>, "str", 0, ABSENT)>>)>>,
      <<Cluster(TRUE, <<Item(FALSE, <<"do">>, "missing", 0, ABSENT)>>)>> }

ClusterWrapped(top_kws) ==
    {JClusters(<<Cluster(TRUE, ClusterKeywords(top_kws))>>), JEmptyDict}

ClusterValues(top_kws) ==
    {JClusters(c) : c \in ClusterLists(top_kws)}
        \cup {NoValue, JNum, JList("clusters"), JEmptyDict,
              JScalarUnder("clusters"), JResults(<<>>)}

(***************************************************************************)
(* Sums and sorted(..., key=volume, reverse=True).                         *)
(***************************************************************************)
\* x.get("volume", 0)
VolumeOf(item) == IF item.vtag = "missing" THEN 0 ELSE item.volume

\* item.get("stage", "awareness")
StageOf(item) == IF item.stage = ABSENT THEN "awareness" ELSE item.stage

RECURSIVE SumVolumes(_)
SumVolumes(items) ==
    IF items = <<>> THEN 0 ELSE VolumeOf(Head(items)) + SumVolumes(Tail(items))

\* sum() over the volumes raises on a volume that is not a number, and
\* .get raises on an element that is not a record.
SumRaises(items) ==
    \E j \in 1..Len(items) : ~items[j].isdict \/ items[j].vtag = "str"

RECURSIVE InsertDesc(_, _)
InsertDesc(sorted, x) ==
    IF sorted = <<>> THEN <<x>>
    ELSE IF VolumeOf(Head(sorted)) >= VolumeOf(x)
         THEN <<Head(sorted)>> \o InsertDesc(Tail(sorted), x)
         ELSE <<x>> \o sorted

\* A stable sort by descending volume.
RECURSIVE SortDesc(_)
SortDesc(items) ==
    IF items = <<>> THEN <<>>
    ELSE InsertDesc(SortDesc(SubSeq(items, 1, Len(items) - 1)), items[Len(items)])

(***************************************************************************)
(* analyze_exit_signals.                                                   *)
(***************************************************************************)
OTHER_BUCKET == <<"gi", "ta">>

ConsiderationKws(classified_keywords) ==
    SelectSeq(classified_keywords, LAMBDA k : k.stage = "consideration")

Mentions(consideration_kws, comp) ==
    SelectSeq(consideration_kws, LAMBDA k : Contains(comp, k.keyword))

ExitEntry(name, count) == [name |-> name, mention_count |-> count]

RECURSIVE CompetitorsExit(_, _)
CompetitorsExit(consideration_kws, n) ==
    IF n = 0 THEN <<>>
    ELSE LET before == CompetitorsExit(consideration_kws, n - 1)
             mentions == Mentions(consideration_kws, COMPETITORS[n])
         IN  IF mentions # <<>>
             THEN Append(before, ExitEntry(COMPETITORS[n], Len(mentions)))
             ELSE before

RECURSIVE SumMentions(_)
SumMentions(entries) ==
    IF entries = <<>> THEN 0
    ELSE Head(entries).mention_count + SumMentions(Tail(entries))

OtherCount(consideration_kws, competitors_exit) ==
    Len(consideration_kws) - SumMentions(competitors_exit)

analyze_exit_signals(classified_keywords) ==
    LET consideration_kws == ConsiderationKws(classified_keywords)
        competitors_exit == CompetitorsExit(consideration_kws, Len(COMPETITORS))
        other_count == OtherCount(consideration_kws, competitors_exit)
    IN  IF other_count > 0
        THEN Append(competitors_exit, ExitEntry(OTHER_BUCKET, other_count))
        ELSE competitors_exit

(***************************************************************************)
(* save_consumer_journey and save_keyword_clusters: the documents written. *)
(***************************************************************************)
SampleSize == 10
TopKeywordsSize == 7

StageItems(classified_keywords, stage_key) ==
    SelectSeq(classified_keywords, LAMBDA item : StageOf(item) = stage_key)

\* A guard that adds one to every denominator.
OneMore(x) == x + 1

\* max(x, 1)
AtLeastOne(x) == IF x > 1 THEN x ELSE 1

\* round(a / b, 2) for integers a and b > 0, in hundredths: the nearest
\* hundredth, and the even one when a / b lies halfway between two (which
\* takes a b that is a multiple of 8). \div rounds down and % is not
\* negative, for a negative a as well.
Round2(a, b) ==
    LET q == (100 * a) \div b
        r == (100 * a) % b
    IN  IF 2 * r > b THEN q + 1
        ELSE IF 2 * r < b THEN q
        ELSE IF q % 2 = 0 THEN q ELSE q + 1

StageReport(items, analyzed) ==
    [keyword_count |-> Len(items),
     total_volume |-> SumVolumes(items),
     share |-> Round2(Len(items), AtLeastOne(analyzed)),
     sample_keywords |-> Take(SortDesc(items), SampleSize)]

UNKNOWN == <<"u", "n", "k", "n", "o", "w", "n">>

\* max(..., key=mention_count) gives the last of the entries that are largest.
RECURSIVE LastMax(_)
LastMax(entries) ==
    IF Len(entries) = 1 THEN entries[1]
    ELSE LET best == LastMax(SubSeq(entries, 1, Len(entries) - 1))
             last == entries[Len(entries)]
         IN  IF last.mention_count >= best.mention_count THEN last ELSE best

\* max(..., key=mention_count) gives the first of the entries that are largest.
RECURSIVE FirstMax(_)
FirstMax(entries) ==
    IF Len(entries) = 1 THEN entries[1]
    ELSE LET best == FirstMax(SubSeq(entries, 1, Len(entries) - 1))
             last == entries[Len(entries)]
         IN  IF last.mention_count > best.mention_count THEN last ELSE best

primary_leak_destination(exit_signals) ==
    IF exit_signals # <<>> THEN FirstMax(exit_signals).name ELSE UNKNOWN

\* round(num / max(den, 1), 2)
FunnelRatio(num, den) == Round2(num, AtLeastOne(den))

\* The share of the awareness volume that does convert.
ConversionRate(cv_vol, aw_vol) == Round2(cv_vol, AtLeastOne(aw_vol))

\* round(1 - (cv_vol / max(aw_vol, 1)), 2)
estimated_leak_rate(cv_vol, aw_vol) ==
    Round2(AtLeastOne(aw_vol) - cv_vol, AtLeastOne(aw_vol))

StageVolume(classified_keywords, stage_key) ==
    SumVolumes(StageItems(classified_keywords, stage_key))

Journey(classified_keywords, total_relevant) ==
    [written |-> TRUE,
     total_keywords_analyzed |-> Len(classified_keywords),
     total_keywords_pool |-> total_relevant,
     stages |-> [s \in StageSet |->
                    StageReport(StageItems(classified_keywords, s),
                                Len(classified_keywords))],
     exit_signals |-> analyze_exit_signals(classified_keywords),
     awareness_to_consideration |->
         FunnelRatio(StageVolume(classified_keywords, "consideration"),
                     StageVolume(classified_keywords, "awareness")),
     consideration_to_conversion |->
         FunnelRatio(StageVolume(classified_keywords, "conversion"),
                     StageVolume(classified_keywords, "consideration")),
     estimated_leak_rate |->
         estimated_leak_rate(StageVolume(classified_keywords, "conversion"),
                             StageVolume(classified_keywords, "awareness")),
     primary_leak_destination |->
         primary_leak_destination(analyze_exit_signals(classified_keywords))]

JourneyRaises(classified_keywords) == SumRaises(classified_keywords)

ClusterReport(cl) ==
    [keyword_count |-> Len(cl.keywords),
     total_volume |-> SumVolumes(cl.keywords),
     top_keywords |-> Take(SortDesc(cl.keywords), TopKeywordsSize)]

KeywordClusters(result, total_relevant) ==
    [written |-> TRUE,
     total_keywords_pool |-> total_relevant,
     clusters |-> [j \in 1..Len(result.clusters) |-> ClusterReport(result.clusters[j])]]

ClustersRaise(result) ==
    \E j \in 1..Len(result.clusters) : SumRaises(result.clusters[j].keywords)

(***************************************************************************)
(* main(): steps 3 to 5.                                                   *)
(***************************************************************************)
Crash == pc' = "exited" /\ exit_code' = 1

\* line 489
CreateClient ==
    /\ pc = "client"
    /\ client' = TRUE
    /\ pc' = "classify"
    /\ UNCHANGED <<vol, inputs, filt, batch_start, attempt, all_results, classified,
                   answered, genuine, calls, last_failure, pauses, outs, exit_code>>

ClassifyResponses(batch) ==
    Responses(ClassifyValues(batch)) \cup Wrapped(ClassifyWrapped(batch))

ClusterResponses(top_kws) ==
    Responses(ClusterValues(top_kws)) \cup Wrapped(ClusterWrapped(top_kws))

\* One oracle call of classify_intent (lines 156-181) and, when call_gemini
\* returns with it, the rest of the loop body (lines 225-237).
ClassifyAttemptWith(resp) ==
    /\ pc = "classify"
    /\ batch_start < Len(relevant_top)
    /\ LET batch == Batch(relevant_top, batch_start) IN
        /\ answered' = (answered \/ Returns(resp))
        /\ calls' = calls + 1
        /\ last_failure' = Failure(resp, attempt)
        /\ IF ~Returns(resp) /\ ~LastAttempt(attempt)
           THEN /\ attempt' = attempt + 1
                /\ UNCHANGED <<pc, batch_start, all_results, genuine, pauses,
                               exit_code>>
           ELSE LET result == ReturnedValue(resp) IN
                IF ClassifyRaises(result)
                THEN Crash /\ UNCHANGED <<batch_start, attempt, all_results, genuine,
                                          pauses>>
                ELSE /\ all_results' = all_results \o BatchResults(result, batch)
                     /\ genuine' = (genuine \/ HasKey(result, "results"))
                     /\ batch_start' = batch_start + BatchSize
                     /\ attempt' = 0
                     /\ pauses' = pauses + 1
                     /\ UNCHANGED <<pc, exit_code>>
    /\ UNCHANGED <<vol, inputs, filt, client, classified, outs>>

ClassifyAttempt ==
    /\ pc = "classify"
    /\ batch_start < Len(relevant_top)
    /\ \E resp \in ClassifyResponses(Batch(relevant_top, batch_start)) :
          ClassifyAttemptWith(resp)

\* classify_intent returns (line 239); main counts the stages (lines 493-502),
\* where item.get raises on an element that is not a record.
\* The journey report is saved as soon as the classification is done.
MainClassifiedSaves ==
    /\ pc = "classify"
    /\ batch_start >= Len(relevant_top)
    /\ classified' = all_results
    /\ calls' = 0
    /\ IF \E j \in 1..Len(all_results) : ~all_results[j].isdict
       THEN Crash /\ UNCHANGED journey_file
       ELSE /\ pc' = "cluster"
            /\ journey_file' = Journey(all_results, Len(relevant))
            /\ UNCHANGED exit_code
    /\ UNCHANGED <<vol, inputs, filt, client, batch_start, attempt, all_results,
                   answered, genuine, last_failure, pauses, cluster_result,
                   no_clusters, clusters_file>>

MainClassified ==
    /\ pc = "classify"
    /\ batch_start >= Len(relevant_top)
    /\ classified' = all_results
    /\ calls' = 0
    /\ IF \E j \in 1..Len(all_results) : ~all_results[j].isdict
       THEN Crash
       ELSE pc' = "cluster" /\ UNCHANGED exit_code
    /\ UNCHANGED <<vol, inputs, filt, client, batch_start, attempt, all_results,
                   answered, genuine, last_failure, pauses, outs>>

\* len(cluster_result['clusters']) and cl.get of lines 509-511.
ClusterCheckRaises(result) ==
    \/ MembershipRaises(result)
    \/ /\ HasKey(result, "clusters")
       /\ \/ result.t # "dict"
          \/ result.vt # "list"
          \/ \E j \in 1..Len(result.clusters) : ~result.clusters[j].isdict

\* The value call_gemini returned holds at least one cluster.
CarriesClusters(result) ==
    HasKey(result, "clusters") /\ result.t = "dict" /\ result.vt = "list"
        /\ result.clusters # <<>>

\* One oracle call of cluster_personas and, when call_gemini returns with
\* it, lines 508-514 of main.
ClusterAttemptWith(resp) ==
    /\ pc = "cluster"
    /\ last_failure' = Failure(resp, attempt)
    /\ IF ~Returns(resp) /\ ~LastAttempt(attempt)
           THEN /\ attempt' = attempt + 1
                /\ UNCHANGED <<pc, cluster_result, no_clusters, exit_code>>
           ELSE LET result == ReturnedValue(resp) IN
                /\ no_clusters' = IF CarriesClusters(result) THEN "no" ELSE "yes"
                /\ IF ClusterCheckRaises(result)
                   THEN Crash /\ UNCHANGED <<attempt, cluster_result>>
                   ELSE /\ cluster_result' =
                               IF HasKey(result, "clusters") THEN result
                               ELSE JClusters(<<>>)
                        /\ attempt' = 0
                        /\ pc' = "save_journey"
                        /\ UNCHANGED exit_code
    /\ UNCHANGED <<vol, inputs, filt, client, batch_start, all_results, classified,
                   answered, genuine, calls, pauses, journey_file, clusters_file>>

ClusterAttempt ==
    /\ pc = "cluster"
    /\ \E resp \in ClusterResponses(Take(relevant_top, ClusterTop)) :
          ClusterAttemptWith(resp)

\* lines 519-522
SaveJourney ==
    /\ pc = "save_journey"
    /\ IF JourneyRaises(classified)
       THEN Crash /\ UNCHANGED journey_file
       ELSE /\ journey_file' = Journey(classified, Len(relevant))
            /\ pc' = "save_clusters"
            /\ UNCHANGED exit_code
    /\ UNCHANGED <<vol, inputs, filt, cls, cluster_result, no_clusters, clusters_file>>

\* lines 524-537
SaveClusters ==
    /\ pc = "save_clusters"
    /\ IF ClustersRaise(cluster_result)
       THEN Crash /\ UNCHANGED clusters_file
       ELSE /\ clusters_file' = KeywordClusters(cluster_result, Len(relevant))
            /\ pc' = "exited"
            /\ exit_code' = 0
    /\ UNCHANGED <<vol, inputs, filt, cls, cluster_result, no_clusters, journey_file>>

Next ==
    \/ MainStart
    \/ MainLoad
    \/ MainFilter
    \/ CreateClient
    \/ ClassifyAttempt
    \/ MainClassified
    \/ ClusterAttempt
    \/ SaveJourney
    \/ SaveClusters

Spec == Init /\ [][Next]_vars

NextFilter == MainStart \/ MainLoad \/ MainFilter

\* Non-dry runs with the credential on pools of relevant keywords of one
\* volume: the runs that differ only in what the oracle does.
RetryPools ==
    {p \in Pools : \A j \in 1..Len(p) :
        p[j].total = 200 /\ is_furniture_related(p[j].keyword)}

InitRetry ==
    /\ dry_run = FALSE
    /\ api_key = TRUE
    /\ input_exists = TRUE
    /\ input_keywords \in RetryPools
    /\ top_n = DefaultTopN
    /\ InitRun
    /\ VolumeIdle

SpecRetry == InitRetry /\ [][Next]_vars

SpecFilter == InitFilter /\ [][NextFilter]_vars

(***************************************************************************)
(* collect-search-volume.py: update_search_volume_json.                    *)
(***************************************************************************)
\* existing.get("demographics", {})
GetDemographics(file) ==
    IF file.demographics = "absent" THEN "empty" ELSE file.demographics

\* demographics if demographics else {the placeholder}
DemographicsOut(demographics) ==
    IF demographics = "empty" THEN "placeholder" ELSE demographics

\* existing_months.index(current_month)
FirstIndex(historical, month) ==
    CHOOSE i \in 1..Len(historical) :
        /\ historical[i].date = month
        /\ \A j \in 1..(i - 1) : historical[j].date # month

\* The new entry is always appended.
AppendEntry(historical, entry) == Append(historical, entry)

\* lines 293-297
MergeEntry(historical, entry) ==
    IF \E i \in 1..Len(historical) : historical[i].date = entry.date
    THEN [historical EXCEPT ![FirstIndex(historical, entry.date)] = entry]
    ELSE Append(historical, entry)

RECURSIVE InsertByDate(_, _)
InsertByDate(sorted, x) ==
    IF sorted = <<>> THEN <<x>>
    ELSE IF Head(sorted).date <= x.date
         THEN <<Head(sorted)>> \o InsertByDate(Tail(sorted), x)
         ELSE <<x>> \o sorted

\* historical.sort(key=date): a stable sort by ascending date.
RECURSIVE SortByDate(_)
SortByDate(historical) ==
    IF historical = <<>> THEN <<>>
    ELSE InsertByDate(SortByDate(SubSeq(historical, 1, Len(historical) - 1)),
                      historical[Len(historical)])

update_search_volume_json(file, month, brands) ==
    VolumeFile(TRUE,
               [date |-> month, brands |-> brands],
               SortByDate(MergeEntry(file.historical,
                                     HistoryEntry(month, TotalsOf(brands)))),
               DemographicsOut(GetDemographics(file)))

UpdateSearchVolume ==
    /\ updates < MaxUpdates
    /\ \E month \in Months, brands \in BrandsData :
        /\ existing' = search_volume_file
        /\ current_month' = month
        /\ brands_data' = brands
        /\ search_volume_file' = update_search_volume_json(search_volume_file, month, brands)
    /\ updates' = updates + 1
    /\ UNCHANGED <<pc, inputs, filt, cls, outs, exit_code>>

InitVolume ==
    /\ dry_run = TRUE /\ api_key = FALSE /\ input_exists = FALSE
    /\ input_keywords = <<>> /\ top_n = DefaultTopN
    /\ InitRun
    /\ search_volume_file \in FoundFiles
    /\ existing = NoVolumeFile
    /\ current_month = 0
    /\ brands_data = NoCurrent.brands
    /\ updates = 0

NextVolume == UpdateSearchVolume

SpecVolume == InitVolume /\ [][NextVolume]_vars

(***************************************************************************)
(* Vocabulary of the properties.                                           *)
(***************************************************************************)
\* filter_keywords has run in this run.
Filtered == pc \notin {"start", "load", "filter"}

\* classify_intent has returned and `classified` holds what it returned.
Returned == client /\ pc # "classify" /\ batch_start >= Len(relevant_top)

In(seq, x) == \E j \in 1..Len(seq) : seq[j] = x

AtOrAboveFloor(k) == k.total >= MinVolume

\* Two characters that are the same letter, whatever their case.
CasePairs == {<<"A", "a">>, <<"S", "s">>, <<"T", "t">>, <<"V", "v">>}

SameLetter(a, b) == a = b \/ <<a, b>> \in CasePairs \/ <<b, a>> \in CasePairs

\* name occurs in text, compared case-insensitively.
OccursCI(name, text) ==
    \E off \in 0..(Len(text) - Len(name)) :
        \A j \in 1..Len(name) : SameLetter(text[off + j], name[j])

RECURSIVE NoSpace(_)
NoSpace(name) ==
    IF name = <<>> THEN <<>>
    ELSE IF Head(name) = " " THEN NoSpace(Tail(name))
    ELSE <<Head(name)>> \o NoSpace(Tail(name))

ConfiguredNames == {BRAND} \cup {COMPETITORS[n] : n \in 1..Len(COMPETITORS)}

NamesBrand(text) ==
    \E name \in ConfiguredNames : OccursCI(name, text) \/ OccursCI(NoSpace(name), text)

HasDomainTerm(text) ==
    \E n \in 1..Len(FURNITURE_TERMS) : OccursCI(FURNITURE_TERMS[n], text)

HasExcludeTerm(text) ==
    \E n \in 1..Len(EXCLUDE_TERMS) : Contains(EXCLUDE_TERMS[n], text)

(***************************************************************************)
(* C1: classify_intent returns exactly one record per input keyword, in    *)
(* input order: the output is as long as the input and its i-th record     *)
(* carries the i-th input keyword, whatever the oracle answered.           *)
(***************************************************************************)
C1_OneRecordPerKeyword ==
    Returned =>
        /\ Len(classified) = Len(relevant_top)
        /\ \A j \in 1..Len(classified) :
              j <= Len(relevant_top) => classified[j].keyword = relevant_top[j].keyword

(***************************************************************************)
(* C2: every record classify_intent returns has a stage among awareness,   *)
(* consideration and conversion, whatever labels the oracle used.          *)
(***************************************************************************)
C2_StageInFixedSet ==
    Returned => \A j \in 1..Len(classified) : classified[j].stage \in StageSet

(***************************************************************************)
(* C3: in the journey report the keyword_count of the three stages sum to  *)
(* total_keywords_analyzed, the number of classified keywords.             *)
(***************************************************************************)
C3_StageCountsSumToTotal ==
    journey_file.written =>
        journey_file.stages["awareness"].keyword_count
            + journey_file.stages["consideration"].keyword_count
            + journey_file.stages["conversion"].keyword_count
        = journey_file.total_keywords_analyzed

(***************************************************************************)
(* C4: the mention_count of all exit-signal entries (the competitors and   *)
(* the other bucket) sum to the number of consideration-stage keywords.    *)
(***************************************************************************)
IsConsideration(k) == k.stage = "consideration"

C4_ExitSignalCoverage ==
    journey_file.written =>
        SumMentions(journey_file.exit_signals)
            = Cardinality({j \in 1..Len(classified) : IsConsideration(classified[j])})

(***************************************************************************)
(* C5: when every oracle call of every batch fails, classify_intent        *)
(* returns one record per input keyword, the i-th with the i-th keyword,   *)
(* its total as volume, and stage awareness.                               *)
(***************************************************************************)
C5_FallbackWhenOracleFails ==
    (Returned /\ ~answered) =>
        /\ Len(classified) = Len(relevant_top)
        /\ \A j \in 1..Len(relevant_top) :
              /\ classified[j].isdict
              /\ classified[j].keyword = relevant_top[j].keyword
              /\ classified[j].vtag = "int"
              /\ classified[j].volume = relevant_top[j].total
              /\ classified[j].stage = "awareness"

\* The oracle failed throughout a run of two batches.
C5_Witness == Returned /\ ~answered /\ Len(relevant_top) > BatchSize

(***************************************************************************)
(* C6: a non-dry run with the credential and a valid input file always     *)
(* reaches step 5 and writes both reports, whatever the oracle answered.   *)
(***************************************************************************)
C6_OracleNeverAborts ==
    (pc = "exited" /\ ~dry_run /\ api_key /\ input_exists) =>
        journey_file.written /\ clusters_file.written

(***************************************************************************)
(* C7: filter_keywords partitions the input by the volume floor: a keyword *)
(* below the floor is in neither list, every other keyword is in exactly   *)
(* one of relevant and filtered_out, and the lists hold nothing else.      *)
(***************************************************************************)
C7_FilterPartition ==
    Filtered =>
        /\ \A j \in 1..Len(all_keywords) :
              LET k == all_keywords[j] IN
              IF AtOrAboveFloor(k)
              THEN In(relevant, k) # In(filtered_out, k)
              ELSE ~In(relevant, k) /\ ~In(filtered_out, k)
        /\ \A j \in 1..Len(relevant) : In(all_keywords, relevant[j])
        /\ \A j \in 1..Len(filtered_out) : In(all_keywords, filtered_out[j])
        /\ Len(relevant) + Len(filtered_out)
              = Cardinality({j \in 1..Len(all_keywords) : AtOrAboveFloor(all_keywords[j])})

\* A pool with a keyword below the floor, one kept at the floor and one
\* filtered out.
C7_Witness ==
    /\ Filtered
    /\ \E j \in 1..Len(all_keywords) : ~AtOrAboveFloor(all_keywords[j])
    /\ \E j \in 1..Len(relevant) : relevant[j].total = MinVolume
    /\ filtered_out # <<>>

(***************************************************************************)
(* C8: the domain-term check comes before the exclusion-term check: a      *)
(* keyword at or above the floor with both a domain term and an exclusion  *)
(* term is relevant, and one with no brand name and no domain term is      *)
(* filtered out.                                                           *)
(***************************************************************************)
C8_DomainBeforeExclusion ==
    Filtered =>
        \A j \in 1..Len(all_keywords) :
            LET k == all_keywords[j] IN
            AtOrAboveFloor(k) =>
                /\ (HasDomainTerm(k.keyword) /\ HasExcludeTerm(k.keyword))
                        => In(relevant, k)
                /\ (~NamesBrand(k.keyword) /\ ~HasDomainTerm(k.keyword))
                        => In(filtered_out, k)

(***************************************************************************)
(* C9: domain-term matching is case-insensitive for every configured       *)
(* domain term: a keyword at or above the floor that contains a domain     *)
(* term in any letter case is relevant.                                    *)
(***************************************************************************)
C9_DomainTermAnyCase ==
    Filtered =>
        \A j \in 1..Len(all_keywords) :
            LET k == all_keywords[j] IN
            (AtOrAboveFloor(k) /\ HasDomainTerm(k.keyword)) => In(relevant, k)

(***************************************************************************)
(* C10: a keyword at or above the floor is relevant whenever its text      *)
(* contains the brand name or a competitor name, in any letter case, with  *)
(* the name's internal whitespace or without it; exclusion terms in the    *)
(* text do not change that.                                                *)
(***************************************************************************)
C10_BrandMatch ==
    Filtered =>
        \A j \in 1..Len(all_keywords) :
            LET k == all_keywords[j] IN
            (AtOrAboveFloor(k) /\ NamesBrand(k.keyword)) => In(relevant, k)

\* A relevant keyword that holds an exclusion term and a competitor name
\* only without its whitespace and in another letter case.
C10_Witness ==
    /\ Filtered
    /\ \E j \in 1..Len(relevant) :
          LET text == relevant[j].keyword IN
          /\ HasExcludeTerm(text)
          /\ ~HasDomainTerm(text)
          /\ NamesBrand(text)
          /\ \A name \in ConfiguredNames :
                ~Contains(name, text) /\ ~Contains(NoSpace(name), text)
                    /\ ~OccursCI(name, text)

(***************************************************************************)
(* C11: a record of the fallback can be told from a record the oracle      *)
(* returned: a run in which records of the oracle were taken never holds   *)
(* the classified records of the run on the same input in which every      *)
(* oracle call fails, which are the fallback records of the input (C5).    *)
(***************************************************************************)
C11_FallbackDistinguishable ==
    (Returned /\ genuine) => classified # Fallback(relevant_top)

(***************************************************************************)
(* C12: a run whose clustering call failed on all attempts, or returned a  *)
(* value without clusters, ends with keyword-clusters.json written and its *)
(* clusters sequence empty.                                                *)
(***************************************************************************)
C12_EmptyClustersOnFailure ==
    (pc = "exited" /\ no_clusters = "yes") =>
        clusters_file.written /\ clusters_file.clusters = <<>>

(***************************************************************************)
(* C13: every keyword in a cluster of the written cluster report is a      *)
(* keyword of the slice sent to the clustering oracle, whatever the oracle *)
(* returned.                                                               *)
(***************************************************************************)
SentToClustering == Take(relevant_top, ClusterTop)

C13_ClusterKeywordsFromTopN ==
    clusters_file.written =>
        \A c \in 1..Len(clusters_file.clusters) :
            \A j \in 1..Len(clusters_file.clusters[c].top_keywords) :
                \E n \in 1..Len(SentToClustering) :
                    SentToClustering[n].keyword
                        = clusters_file.clusters[c].top_keywords[j].keyword

(***************************************************************************)
(* C14: for a nonempty classified sequence the share values of the three   *)
(* stages of the journey report sum to 1.0 within 0.02.                    *)
(***************************************************************************)
\* Shares are in hundredths: 1.0 is 100 and the tolerance 0.02 is 2.
ShareSum ==
    journey_file.stages["awareness"].share
        + journey_file.stages["consideration"].share
        + journey_file.stages["conversion"].share

C14_SharesSumToOne ==
    (journey_file.written /\ journey_file.total_keywords_analyzed > 0) =>
        /\ ShareSum >= 100 - 2
        /\ ShareSum <= 100 + 2

(***************************************************************************)
(* C15: the exit-signal entries stand in the order of the configured       *)
(* competitors with the other bucket last, and primary_leak_destination is *)
(* the name of the first entry among those with the largest mention_count, *)
(* or the text unknown when there is no entry.                             *)
(***************************************************************************)
\* Position of a name in the iteration of the exit-signal mapping.
MappingRank(name) ==
    IF \E n \in 1..Len(COMPETITORS) : COMPETITORS[n] = name
    THEN CHOOSE n \in 1..Len(COMPETITORS) : COMPETITORS[n] = name
    ELSE Len(COMPETITORS) + 1

C15_PrimaryLeakDestination ==
    journey_file.written =>
        LET e == journey_file.exit_signals
            p == journey_file.primary_leak_destination
        IN  /\ \A j, k \in 1..Len(e) :
                  j < k => MappingRank(e[j].name) < MappingRank(e[k].name)
            /\ IF e = <<>> THEN p = UNKNOWN
               ELSE \E j \in 1..Len(e) :
                       /\ p = e[j].name
                       /\ \A k \in 1..Len(e) : e[k].mention_count <= e[j].mention_count
                       /\ \A k \in 1..(j - 1) : e[k].mention_count < e[j].mention_count

\* Two entries tie for the largest count, a competitor and the other bucket.
C15_Witness ==
    /\ journey_file.written
    /\ LET e == journey_file.exit_signals IN
        /\ Len(e) = 2
        /\ e[2].name = OTHER_BUCKET
        /\ e[1].mention_count = e[2].mention_count
        /\ journey_file.primary_leak_destination = e[1].name

\* The largest count is not the first entry's.
C15_LaterEntryWins ==
    /\ journey_file.written
    /\ LET e == journey_file.exit_signals IN
        /\ Len(e) >= 2
        /\ e[1].mention_count < e[2].mention_count
        /\ journey_file.primary_leak_destination = e[2].name

(***************************************************************************)
(* C16: a run with --dry-run does only the loading and filter_keywords: it *)
(* creates no client, calls no oracle, writes neither report, and ends     *)
(* with exit code 0 on an existing input file with or without credential.  *)
(***************************************************************************)
C16_DryRunFrame ==
    dry_run =>
        /\ pc \in {"start", "load", "filter", "exited"}
        /\ ~client
        /\ calls = 0 /\ attempt = 0 /\ ~answered
        /\ all_results = <<>> /\ classified = <<>>
        /\ cluster_result = NoValue /\ no_clusters = "pending"
        /\ ~journey_file.written /\ ~clusters_file.written
        /\ (pc = "exited" /\ input_exists) => (exit_code = 0 /\ Filtered)

\* A dry run without the credential has filtered a pool and ended.
C16_Witness ==
    /\ dry_run /\ ~api_key
    /\ pc = "exited" /\ exit_code = 0
    /\ relevant # <<>> /\ filtered_out # <<>>

(***************************************************************************)
(* C17: a run ends with exit code 1, with no oracle call made and no       *)
(* report written, when it is a non-dry run without the credential or the  *)
(* input file is missing; every other run ends with exit code 0.           *)
(***************************************************************************)
Refused == (~dry_run /\ ~api_key) \/ ~input_exists

C17_ExitCodes ==
    pc = "exited" =>
        IF Refused
        THEN /\ exit_code = 1
             /\ ~client /\ ~answered /\ all_results = <<>>
             /\ ~journey_file.written /\ ~clusters_file.written
        ELSE exit_code = 0

(***************************************************************************)
(* C19: classify_intent terminates. While it runs it has made at most 3    *)
(* oracle calls per batch begun, hence at most 3 * ceil(n / batch_size)    *)
(* for n keywords; every oracle call moves it to the next attempt of the   *)
(* batch, of which there are 3, or to the next batch, or out of the        *)
(* function; and while it has not left, a step of it can be taken.         *)
(***************************************************************************)
Batches(n) == (n + BatchSize - 1) \div BatchSize

C19_CallsBounded ==
    pc = "classify" =>
        /\ attempt < MaxRetries
        /\ calls <= MaxRetries * (batch_start \div BatchSize) + attempt
        /\ calls <= MaxRetries * Batches(Len(relevant_top))
        /\ batch_start <= BatchSize * Batches(Len(relevant_top))
        /\ ENABLED (ClassifyAttempt \/ MainClassified)

\* A step of classify_intent before its return is an oracle call.
InCallStep == pc = "classify" /\ batch_start < Len(relevant_top)

C19_Progress ==
    InCallStep =>
        /\ calls' = calls + 1
        /\ \/ pc' = "exited"
           \/ batch_start' = batch_start + BatchSize
           \/ batch_start' = batch_start /\ attempt' = attempt + 1

C19_ClassifyTerminates == [](C19_CallsBounded) /\ [][C19_Progress]_vars

\* classify_intent is about to return after 3 calls for each of two batches.
C19_Witness ==
    /\ pc = "classify"
    /\ batch_start >= Len(relevant_top)
    /\ Len(relevant_top) > BatchSize
    /\ calls = MaxRetries * Batches(Len(relevant_top))

(***************************************************************************)
(* C20: after every update of search-volume.json the entries of months     *)
(* other than the current one are those the file held before, the current  *)
(* month's entry holds the new totals (in place of the entry found, or     *)
(* added when none was found), the historical list is sorted by date,      *)
(* months that were unique are still unique, and the demographics block    *)
(* the file held is the block it holds now.                                *)
(***************************************************************************)
Updated == updates > 0

NewEntry == HistoryEntry(current_month, TotalsOf(brands_data))

Count(historical, entry) ==
    Cardinality({j \in 1..Len(historical) : historical[j] = entry})

OfMonth(historical, month) == {j \in 1..Len(historical) : historical[j].date = month}

UniqueMonths(historical) ==
    \A j, k \in 1..Len(historical) : j # k => historical[j].date # historical[k].date

SortedByDate(historical) ==
    \A j, k \in 1..Len(historical) : j < k => historical[j].date <= historical[k].date

HistoryPreserved ==
    LET before == existing.historical
        after == search_volume_file.historical
    IN  /\ \A m \in Months \ {current_month} :
              /\ Cardinality(OfMonth(after, m)) = Cardinality(OfMonth(before, m))
              /\ \A j \in OfMonth(before, m) : Count(after, before[j]) = Count(before, before[j])
        /\ In(after, NewEntry)
        /\ Cardinality(OfMonth(after, current_month))
              = IF OfMonth(before, current_month) = {} THEN 1
                ELSE Cardinality(OfMonth(before, current_month))
        /\ UniqueMonths(before) => Count(after, NewEntry) = 1
        /\ SortedByDate(after)
        /\ UniqueMonths(before) => UniqueMonths(after)
        /\ search_volume_file.exists
        /\ search_volume_file.current = [date |-> current_month, brands |-> brands_data]

C20_HistoryAndDemographicsKept ==
    Updated =>
        /\ HistoryPreserved
        /\ existing.demographics # "absent"
              => search_volume_file.demographics = existing.demographics

(***************************************************************************)
(* C20 as it holds: the history is preserved as above; a filled            *)
(* demographics block is the block the file holds after the update, while  *)
(* a missing or an empty block gives way to the placeholder block.         *)
(***************************************************************************)
C20_HistoryKeptDemographicsFilled ==
    Updated =>
        /\ HistoryPreserved
        /\ search_volume_file.demographics =
              IF existing.demographics \in {"absent", "empty"} THEN "placeholder"
              ELSE existing.demographics

\* A second update replaced the current month's entry by other totals in a
\* file that also holds another month and a filled demographics block.
C20_Witness ==
    /\ updates = MaxUpdates
    /\ existing.demographics = "datalab"
    /\ \E j, k \in 1..Len(existing.historical) :
          /\ existing.historical[j].date = current_month
          /\ existing.historical[j] # NewEntry
          /\ existing.historical[k].date # current_month
    /\ Len(search_volume_file.historical) = Len(existing.historical)

(***************************************************************************)
(* Vocabulary of the retry loop.                                           *)
(***************************************************************************)
\* The response text parses, strictly or in its brace substring.
Parses(resp) ==
    \/ resp.kind = "json"
    \/ resp.kind = "wrapped" /\ resp.val.t = "dict"
    \/ resp.kind = "wrapped" /\ resp.val.t = "list" /\ Len(resp.val.items) = 1

InClusterCall == pc = "cluster"

\* The keywords of the batch that begins after batch_start keywords.
Slice ==
    [j \in 1..(IF Len(relevant_top) - batch_start < BatchSize
               THEN Len(relevant_top) - batch_start ELSE BatchSize)
        |-> relevant_top[batch_start + j]]

\* This step ends the call_gemini under way.
CallEnds == attempt' = 0 \/ pc' = "exited"

(***************************************************************************)
(* C21: call_gemini makes at most 3 attempts per request. An attempt whose *)
(* response parses, strictly or after substring recovery, ends the call    *)
(* with no further attempt; an attempt that fails by a parse failure or by *)
(* an exception is followed by the next attempt, one attempt later, unless *)
(* it was the third, which ends the call with the no-result value.         *)
(***************************************************************************)
C21_AttemptsBounded ==
    (pc \in {"classify", "cluster"}) =>
        /\ attempt < MaxRetries
        /\ attempt > 0 => last_failure.kind \in {"raise", "garbage"}

\* An exception, or else a text that does not parse.
FailureKind(resp) == IF resp.kind = "raise" THEN "raise" ELSE "garbage"

C21_AttemptStep(resp) ==
    IF Parses(resp) THEN CallEnds /\ last_failure' = NoFailure
    ELSE IF attempt = MaxRetries - 1
         THEN CallEnds /\ last_failure'.kind = FailureKind(resp)
         ELSE /\ attempt' = attempt + 1
              /\ pc' = pc
              /\ last_failure'.kind = FailureKind(resp)

C21_Step ==
    /\ InCallStep =>
          \A resp \in ClassifyResponses(Slice) :
              ClassifyAttemptWith(resp) =>
                  /\ C21_AttemptStep(resp)
                  /\ (~Parses(resp) /\ attempt = MaxRetries - 1)
                        => all_results' = all_results \o Fallback(Slice)
                  /\ (~Parses(resp) /\ attempt < MaxRetries - 1)
                        => all_results' = all_results /\ batch_start' = batch_start
    /\ InClusterCall =>
          \A resp \in ClusterResponses(SentToClustering) :
              ClusterAttemptWith(resp) =>
                  /\ C21_AttemptStep(resp)
                  /\ (~Parses(resp) /\ attempt = MaxRetries - 1)
                        => cluster_result' = JClusters(<<>>)

C21_RetryPolicy == [](C21_AttemptsBounded) /\ [][C21_Step]_vars

\* The first batch ended at its second attempt, which returned the oracle's
\* records after one failure.
C21_Witness ==
    /\ pc = "classify"
    /\ batch_start = BatchSize
    /\ calls = 2
    /\ genuine
    /\ last_failure = NoFailure

(***************************************************************************)
(* C22: a pause of 2^attempt follows a failed attempt exactly when it      *)
(* failed by an exception and was not the last attempt: no pause follows a *)
(* parse failure, and none follows the last attempt.                       *)
(***************************************************************************)
\* The call under way has failed `attempt` times and is about to try again.
Retrying == pc \in {"classify", "cluster"} /\ attempt > 0

C22_BackoffOnlyAfterException ==
    /\ last_failure.kind = "none" => last_failure.slept = 0
    /\ last_failure.kind = "garbage" => last_failure.slept = 0
    /\ last_failure.kind = "raise" =>
          IF Retrying THEN last_failure.slept = 2 ^ (attempt - 1)
          ELSE last_failure.slept = 0
    /\ Retrying => last_failure.kind # "none"

\* A second exception in a row was followed by a pause of 2.
C22_Witness ==
    /\ Retrying
    /\ attempt = MaxRetries - 1
    /\ last_failure.kind = "raise"
    /\ last_failure.slept = 2

\* A call has ended on a third exception.
C22_Exhausted ==
    /\ ~Retrying
    /\ last_failure.kind = "raise"

(***************************************************************************)
(* C23: the batches are the consecutive slices of at most batch_size       *)
(* keywords in input order; every oracle call is for the one batch under   *)
(* way and either leaves the results and the batch as they are or appends  *)
(* that batch's results, pauses once, and moves to the next slice.         *)
(***************************************************************************)
IsPrefix(a, b) == Len(a) <= Len(b) /\ SubSeq(b, 1, Len(a)) = a

C23_BatchPosition ==
    pc = "classify" =>
        /\ batch_start % BatchSize = 0
        /\ pauses = batch_start \div BatchSize
        /\ attempt > 0 => batch_start < Len(relevant_top)

C23_Step ==
    InCallStep =>
        /\ Len(Slice) <= BatchSize /\ Len(Slice) > 0
        /\ IsPrefix(all_results, all_results')
        /\ \/ pc' = "exited" /\ all_results' = all_results /\ pauses' = pauses
           \/ /\ batch_start' = batch_start
              /\ all_results' = all_results
              /\ pauses' = pauses
           \/ /\ batch_start' = batch_start + BatchSize
              /\ pauses' = pauses + 1
              /\ attempt' = 0
              /\ \/ all_results' = all_results \o Fallback(Slice)
                 \/ \E resp \in ClassifyResponses(Slice) :
                       /\ Parses(resp)
                       /\ all_results' = all_results \o ReturnedValue(resp).items

C23_BatchesInOrder == [](C23_BatchPosition) /\ [][C23_Step]_vars

\* Two batches are done, the second shorter than the first.
C23_Witness ==
    /\ pc = "classify"
    /\ batch_start >= Len(relevant_top)
    /\ Len(relevant_top) > BatchSize
    /\ Len(relevant_top) % BatchSize # 0
    /\ pauses = 2

(***************************************************************************)
(* C24: a response whose payload is a JSON array of per-keyword records,   *)
(* with or without text around it, is taken as the classification of the   *)
(* batch: the attempt appends the records of the array to the results.     *)
(***************************************************************************)
IsRecordArray(resp) ==
    /\ resp.kind \in {"json", "wrapped"}
    /\ resp.val.t = "list"
    /\ resp.val.items # <<>>

C24_Step ==
    InCallStep =>
        \A resp \in ClassifyResponses(Slice) :
            (ClassifyAttemptWith(resp) /\ IsRecordArray(resp)) =>
                all_results' = all_results \o resp.val.items

C24_ArrayAccepted == [][C24_Step]_vars

(***************************************************************************)
(* Vocabulary of the funnel summary.                                       *)
(***************************************************************************)
\* The sum of the volumes of the keywords of one stage; a record without a
\* stage counts as awareness and one without a volume as 0.
RECURSIVE VolumeIn(_, _)
VolumeIn(items, s) ==
    IF items = <<>> THEN 0
    ELSE LET k == items[Len(items)]
             rest == VolumeIn(SubSeq(items, 1, Len(items) - 1), s)
             stage == IF k.stage = ABSENT THEN "awareness" ELSE k.stage
         IN  IF stage = s /\ k.vtag = "int" THEN rest + k.volume ELSE rest

NonZero(x) == IF x = 0 THEN 1 ELSE x

\* r hundredths is a / b rounded to 2 decimals.
Nearest(r, a, b) ==
    /\ b > 0
    /\ 2 * (100 * a - r * b) <= b
    /\ 2 * (r * b - 100 * a) <= b

\* Every record is a dict whose volume, if any, is a number.
NumericVolumes(items) ==
    \A j \in 1..Len(items) : items[j].isdict /\ items[j].vtag # "str"

(***************************************************************************)
(* C25: the written funnel summary holds co / max(aw, 1), cv / max(co, 1)  *)
(* and 1 - cv / max(aw, 1), each rounded to 2 decimals, of the stage       *)
(* volumes aw, co, cv; and for a classified sequence of numeric volumes    *)
(* the report is written, whichever stages are empty.                      *)
(***************************************************************************)
C25_Ratios ==
    journey_file.written =>
        LET aw == VolumeIn(classified, "awareness")
            co == VolumeIn(classified, "consideration")
            cv == VolumeIn(classified, "conversion")
        IN  /\ Nearest(journey_file.awareness_to_consideration, co, NonZero(aw))
            /\ Nearest(journey_file.consideration_to_conversion, cv, NonZero(co))
            /\ Nearest(journey_file.estimated_leak_rate,
                       NonZero(aw) - cv, NonZero(aw))

C25_Step ==
    (pc = "save_journey" /\ NumericVolumes(classified)) =>
        journey_file'.written /\ pc' = "save_clusters"

C25_FunnelRatios == [](C25_Ratios) /\ [][C25_Step]_vars

\* A report written with an empty awareness stage and the two other stages
\* not empty.
C25_Witness ==
    /\ journey_file.written
    /\ VolumeIn(classified, "awareness") = 0
    /\ VolumeIn(classified, "consideration") > 0
    /\ VolumeIn(classified, "conversion") > 0
    /\ journey_file.awareness_to_consideration
          = 100 * VolumeIn(classified, "consideration")

\* A report written with an awareness volume, itself not zero, that the
\* consideration volume does not divide evenly.
C25_WitnessRounded ==
    /\ journey_file.written
    /\ VolumeIn(classified, "awareness") = 400
    /\ VolumeIn(classified, "consideration") = 50

(***************************************************************************)
(* C29: the written estimated_leak_rate lies between 0 and 1.              *)
(***************************************************************************)
C29_LeakRateInUnitInterval ==
    journey_file.written =>
        /\ journey_file.estimated_leak_rate >= 0
        /\ journey_file.estimated_leak_rate <= 100

(***************************************************************************)
(* C30: for an empty classified sequence the written report has the three  *)
(* stages with keyword_count 0, total_volume 0, share 0 and no sample      *)
(* keywords, no exit signals, both conversion ratios 0, estimated leak     *)
(* rate 1 and primary leak destination unknown.                            *)
(***************************************************************************)
C30_Written ==
    (journey_file.written /\ classified = <<>>) =>
        /\ DOMAIN journey_file.stages
              = {"awareness", "consideration", "conversion"}
        /\ \A s \in DOMAIN journey_file.stages :
              /\ journey_file.stages[s].keyword_count = 0
              /\ journey_file.stages[s].total_volume = 0
              /\ journey_file.stages[s].share = 0
              /\ journey_file.stages[s].sample_keywords = <<>>
        /\ journey_file.exit_signals = <<>>
        /\ journey_file.awareness_to_consideration = 0
        /\ journey_file.consideration_to_conversion = 0
        /\ journey_file.estimated_leak_rate = 100
        /\ journey_file.primary_leak_destination = UNKNOWN
        /\ journey_file.total_keywords_analyzed = 0

C30_Step ==
    (pc = "save_journey" /\ classified = <<>>) =>
        journey_file'.written /\ pc' = "save_clusters"

C30_EmptyReport == [](C30_Written) /\ [][C30_Step]_vars

\* The report of a run whose relevant keywords the oracle answered with an
\* empty result list.
C30_Witness ==
    /\ journey_file.written
    /\ classified = <<>>
    /\ relevant # <<>>

\* The report of a run whose pool held no relevant keyword.
C30_WitnessEmptyPool ==
    /\ journey_file.written
    /\ classified = <<>>
    /\ relevant = <<>>

(***************************************************************************)
(* C26: the keywords of the clustering request are the first               *)
(* min(300, number of relevant keywords) of the filtered relevant pool,    *)
(* which is in descending order of volume.                                 *)
(***************************************************************************)
C26_ClusterRequest ==
    pc = "cluster" =>
        SentToClustering
            = SubSeq(relevant, 1,
                     IF Len(relevant) < 300 THEN Len(relevant) ELSE 300)

(***************************************************************************)
(* C27: a batch takes the awareness fallback only at its third attempt.    *)
(***************************************************************************)
C27_Step ==
    InCallStep =>
        \A resp \in ClassifyResponses(Slice) :
            (/\ ClassifyAttemptWith(resp)
             /\ batch_start' # batch_start
             /\ all_results' = all_results \o Fallback(Slice))
                => attempt = MaxRetries - 1

C27_FallbackAfterThreeAttempts == [][C27_Step]_vars

(***************************************************************************)
(* C28: a report is on disk only when every oracle call of the run is      *)
(* over; the journey report is written first and the cluster report only   *)
(* next to it; a run that ends between the two writes leaves the new       *)
(* journey report with the cluster report as it was, and no step before    *)
(* step 5 touches either file.                                             *)
(***************************************************************************)
C28_WrittenAfterCalls ==
    /\ journey_file.written => pc \in {"save_clusters", "exited"}
    /\ clusters_file.written => journey_file.written /\ pc = "exited"
    /\ (pc \in {"classify", "cluster"} /\ attempt > 0) =>
          journey_file = NoFile /\ clusters_file = NoFile

C28_Step ==
    /\ journey_file' # journey_file =>
          /\ pc = "save_journey"
          /\ journey_file = NoFile
          /\ clusters_file' = NoFile
    /\ clusters_file' # clusters_file =>
          /\ pc = "save_clusters"
          /\ clusters_file = NoFile
          /\ journey_file' = journey_file
          /\ journey_file.written
    /\ pc \notin {"save_journey", "save_clusters"} =>
          journey_file' = journey_file /\ clusters_file' = clusters_file

C28_WriteOrder == [](C28_WrittenAfterCalls) /\ [][C28_Step]_vars

\* A run has ended in an error after it wrote the journey report: the
\* cluster report is as it was.
C28_Witness ==
    /\ pc = "exited"
    /\ exit_code = 1
    /\ journey_file.written
    /\ clusters_file = NoFile

\* A run has ended in an error raised while the journey report was made.
C28_WitnessBeforeWrites ==
    /\ pc = "exited"
    /\ exit_code = 1
    /\ classified # <<>>
    /\ no_clusters # "pending"
    /\ journey_file = NoFile
    /\ clusters_file = NoFile

====
